---- MODULE Spec2Model ----
(***************************************************************************)
(* A model of the line-oriented file helpers of the OMP IPython prelude    *)
(* (packages/coding-agent/src/ipy/prelude.py): lines, delete_lines,        *)
(* delete_matching, insert_at, grep, replace, sed, find, rgrep and rsed.   *)
(*                                                                         *)
(* A Python str is modelled as a sequence of one-character strings, so     *)
(* that splitting, joining, slicing and shell-glob matching are computed   *)
(* character by character, as the library computes them.                   *)
(***************************************************************************)
EXTENDS Integers, Sequences, FiniteSets, TLC

VARIABLES
    fileData,   \* content of the single target file of the line operations
    hist,       \* the calls made so far on that file, oldest first
    io,         \* the mutation whose write-back to that file is in progress
    target,     \* what the path of that file names: "file", "dir", "missing",
                \* or "unreadable" (a file whose read raises)
    scandir,    \* the directory tree: each directory's entries, in os.scandir order
    files,      \* content of every file of the tree
    mtime,      \* st_mtime of every entry of the tree
    fault,      \* the file of the tree whose read or write raises, if any
    base,       \* the path argument: as given, and resolved
    call        \* the find, rgrep or rsed call in progress, and its result

lineVars == <<fileData, hist, io, target>>
treeVars == <<scandir, files, mtime, fault, base, call>>
vars == <<fileData, hist, io, target, scandir, files, mtime, fault, base, call>>

(***************************************************************************)
(* Bounds of the model.                                                    *)
(***************************************************************************)
MaxLen == 4        \* longest initial file content, in characters
MaxRuns == 2       \* consecutive runs of the same predicate deletion
MaxWriteLen == 3   \* longest file content of the write-back model

(***************************************************************************)
(* Python built-ins used by the helpers.                                   *)
(***************************************************************************)
NL == "\n"
CR == "\r"

\* The line boundaries str.splitlines() recognises, among the characters
\* of the model's alphabet: "\n", "\r" and the pair "\r\n".
LineBreaks == {NL, CR}

\* Path.read_text(encoding="utf-8"): the file is opened in text mode with
\* newline=None, which translates "\r\n" and a lone "\r" to "\n".
RECURSIVE read_text(_)
read_text(bytes) ==
    IF bytes = <<>> THEN <<>>
    ELSE IF Head(bytes) = CR
         THEN IF Len(bytes) >= 2 /\ bytes[2] = NL
              THEN <<NL>> \o read_text(SubSeq(bytes, 3, Len(bytes)))
              ELSE <<NL>> \o read_text(Tail(bytes))
         ELSE <<Head(bytes)>> \o read_text(Tail(bytes))

Max(a, b) == IF a >= b THEN a ELSE b
Min(a, b) == IF a <= b THEN a ELSE b

\* Index of the first line boundary of s at or after i, Len(s)+1 if none.
RECURSIVE FirstBreak(_, _)
FirstBreak(s, i) ==
    IF i > Len(s) THEN Len(s) + 1
    ELSE IF s[i] \in LineBreaks THEN i
    ELSE FirstBreak(s, i + 1)

\* str.splitlines() (keepends=False): "" gives [], "a\n" gives ["a"],
\* "\n" gives [""], "a\r\nb" gives ["a", "b"], "a\n\nb" gives ["a", "", "b"].
RECURSIVE splitlines(_)
splitlines(s) ==
    IF s = <<>> THEN <<>>
    ELSE LET k == FirstBreak(s, 1)
             skip == IF k < Len(s) /\ s[k] = CR /\ s[k + 1] = NL THEN 2 ELSE 1
         IN  <<SubSeq(s, 1, k - 1)>> \o splitlines(SubSeq(s, k + skip, Len(s)))

\* "\n".join(ls)
RECURSIVE join(_)
join(ls) ==
    IF ls = <<>> THEN <<>>
    ELSE IF Len(ls) = 1 THEN ls[1]
    ELSE ls[1] \o <<NL>> \o join(Tail(ls))

\* The Python slice s[lo:hi] (step 1): a negative index counts from the end,
\* and both indices are clamped to 0..len(s).
PySlice(s, lo, hi) ==
    LET n == Len(s)
        norm(i) == IF i < 0 THEN Max(i + n, 0) ELSE Min(i, n)
        l == norm(lo)
        h == norm(hi)
    IN  IF l < h THEN SubSeq(s, l + 1, h) ELSE <<>>

\* `pattern in l` on str: substring containment ("" is in every string).
StrIn(pattern, l) ==
    \E i \in 1..(Len(l) + 1) :
        /\ i + Len(pattern) - 1 <= Len(l)
        /\ SubSeq(l, i, i + Len(pattern) - 1) = pattern

(***************************************************************************)
(* The regular expressions of the model: ordinary characters, the class    *)
(* \d, capturing groups ( ) and the repeat + after a character or class.   *)
(* re.compile parses the pattern into a sequence of tokens, or raises      *)
(* re.error; the matcher tries the alternatives in the engine's order      *)
(* (a repeat takes as many characters as it can and gives back one at a    *)
(* time).                                                                  *)
(***************************************************************************)
BACKSLASH == "\\"
Digits == {"0", "1", "2", "3", "4", "5", "6", "7", "8", "9"}

Tok(t, c, g) == [t |-> t, c |-> c, g |-> g, plus |-> FALSE]

\* sre_parse: the tokens of p from position i on.  It raises re.error on
\* ")" without "(" (unbalanced parenthesis), on "(" without ")" (missing ),
\* unterminated subpattern), on "+" with nothing before it (nothing to
\* repeat) and on a "\" that ends the pattern (bad escape).
RECURSIVE sre_parse(_, _, _, _, _)
sre_parse(p, i, toks, stack, ngroups) ==
    IF i > Len(p)
    THEN [ok |-> stack = <<>>, toks |-> toks, groups |-> ngroups]
    ELSE IF p[i] = "("
    THEN sre_parse(p, i + 1, Append(toks, Tok("open", "(", ngroups + 1)),
                   <<ngroups + 1>> \o stack, ngroups + 1)
    ELSE IF p[i] = ")"
    THEN IF stack = <<>> THEN [ok |-> FALSE, toks |-> toks, groups |-> ngroups]
         ELSE sre_parse(p, i + 1, Append(toks, Tok("close", ")", Head(stack))),
                        Tail(stack), ngroups)
    ELSE IF p[i] = "+"
    THEN IF toks = <<>> \/ toks[Len(toks)].t \in {"open", "close"}
                        \/ toks[Len(toks)].plus
         THEN [ok |-> FALSE, toks |-> toks, groups |-> ngroups]
         ELSE sre_parse(p, i + 1, [toks EXCEPT ![Len(toks)].plus = TRUE],
                        stack, ngroups)
    ELSE IF p[i] = BACKSLASH
    THEN IF i = Len(p) \/ p[i + 1] # "d"
         THEN [ok |-> FALSE, toks |-> toks, groups |-> ngroups]
         ELSE sre_parse(p, i + 2, Append(toks, Tok("digit", "d", 0)), stack, ngroups)
    ELSE sre_parse(p, i + 1, Append(toks, Tok("lit", p[i], 0)), stack, ngroups)

\* re.compile(pattern): ok is FALSE when it raises re.error.
re_compile(pattern) == sre_parse(pattern, 1, <<>>, <<>>, 0)

Accepts(tok, ch) == IF tok.t = "digit" THEN ch \in Digits ELSE ch = tok.c

\* How many characters of s after the first i the token accepts in a row.
RECURSIVE RunLen(_, _, _)
RunLen(tok, s, i) ==
    IF i < Len(s) /\ Accepts(tok, s[i + 1]) THEN 1 + RunLen(tok, s, i + 1) ELSE 0

NoMatch == [ok |-> FALSE, start |-> 0, end |-> 0, caps |-> <<>>]

\* The match of tokens k.. at offset i of s (i characters are consumed),
\* with the group spans caps recorded so far.
RECURSIVE sre_match(_, _, _, _, _)
RECURSIVE sre_repeat(_, _, _, _, _, _)
sre_match(toks, k, s, i, caps) ==
    IF k > Len(toks) THEN [ok |-> TRUE, start |-> 0, end |-> i, caps |-> caps]
    ELSE LET tok == toks[k]
         IN  IF tok.t = "open"
             THEN sre_match(toks, k + 1, s, i, [caps EXCEPT ![tok.g].s = i])
             ELSE IF tok.t = "close"
             THEN sre_match(toks, k + 1, s, i, [caps EXCEPT ![tok.g].e = i])
             ELSE IF tok.plus
             THEN sre_repeat(toks, k, s, i, RunLen(tok, s, i), caps)
             ELSE IF i < Len(s) /\ Accepts(tok, s[i + 1])
             THEN sre_match(toks, k + 1, s, i + 1, caps)
             ELSE NoMatch

\* Token k repeated n times, then n-1 times, ... down to once.
sre_repeat(toks, k, s, i, n, caps) ==
    IF n < 1 THEN NoMatch
    ELSE LET r == sre_match(toks, k + 1, s, i + n, caps)
         IN  IF r.ok THEN r ELSE sre_repeat(toks, k, s, i, n - 1, caps)

\* rx.search(s, pos): the leftmost match starting at offset pos or later.
RECURSIVE sre_search(_, _, _)
sre_search(rx, s, pos) ==
    IF pos > Len(s) THEN NoMatch
    ELSE LET r == sre_match(rx.toks, 1, s, pos,
                            [g \in 1..rx.groups |-> [s |-> 0, e |-> 0]])
         IN  IF r.ok THEN [r EXCEPT !.start = pos] ELSE sre_search(rx, s, pos + 1)

\* rx.search(l) is not None, for a pattern that compiles.
ReSearch(pattern, l) == sre_search(re_compile(pattern), l, 0).ok

\* [l for l in ls if not match(l)]
RECURSIVE FilterOut(_, _, _)
FilterOut(ls, pattern, regex) ==
    IF ls = <<>> THEN <<>>
    ELSE LET hit == IF regex THEN ReSearch(pattern, Head(ls))
                    ELSE StrIn(pattern, Head(ls))
             rest == FilterOut(Tail(ls), pattern, regex)
         IN  IF hit THEN rest ELSE <<Head(ls)>> \o rest

(***************************************************************************)
(* The line operations, as functions of the file content read.  Each gives *)
(* the content written back (new) and the value returned.                  *)
(***************************************************************************)

\* lines(path, start, end): the text returned.
lines(data, start, end, endNone) ==
    LET all_lines == splitlines(data)
        end0 == IF endNone THEN Len(all_lines) ELSE end
        start1 == Max(1, start)
        end1 == Min(Len(all_lines), end0)
        selected == PySlice(all_lines, start1 - 1, end1)
    IN  join(selected)

\* delete_lines(path, start, end)
delete_lines(data, start, end, endNone) ==
    LET all_lines == splitlines(data)
        end0 == IF endNone THEN start ELSE end
        start1 == Max(1, start)
        end1 == Min(Len(all_lines), end0)
        count == end1 - start1 + 1
        new_lines == PySlice(all_lines, 0, start1 - 1)
                     \o PySlice(all_lines, end1, Len(all_lines))
    IN  [new |-> join(new_lines) \o (IF all_lines # <<>> THEN <<NL>> ELSE <<>>),
         count |-> count]

\* delete_matching(path, pattern, regex=...)
delete_matching(data, pattern, regex) ==
    LET all_lines == splitlines(data)
        new_lines == FilterOut(all_lines, pattern, regex)
        count == Len(all_lines) - Len(new_lines)
    IN  [new |-> join(new_lines) \o (IF all_lines # <<>> THEN <<NL>> ELSE <<>>),
         count |-> count]

\* insert_at with the "before" index not moved back by one: the text lands
\* after the named line in both modes.
insert_at_no_decrement(data, line_num, text, after) ==
    LET all_lines == splitlines(data)
        new_lines == splitlines(text)
        line_num1 == Max(1, Min(Len(all_lines) + 1, line_num))
        idx == Min(line_num1, Len(all_lines))
        all_lines1 == PySlice(all_lines, 0, idx) \o new_lines
                      \o PySlice(all_lines, idx, Len(all_lines))
    IN  [new |-> join(all_lines1) \o <<NL>>, count |-> Len(new_lines)]

\* insert_at(path, line_num, text, after=...)
insert_at(data, line_num, text, after) ==
    LET all_lines == splitlines(data)
        new_lines == splitlines(text)
        line_num1 == Max(1, Min(Len(all_lines) + 1, line_num))
        idx == IF after THEN Min(line_num1, Len(all_lines)) ELSE line_num1 - 1
        all_lines1 == PySlice(all_lines, 0, idx) \o new_lines
                      \o PySlice(all_lines, idx, Len(all_lines))
    IN  [new |-> join(all_lines1) \o <<NL>>, count |-> Len(new_lines)]

(***************************************************************************)
(* Whole-content substitution: replace and sed.                            *)
(***************************************************************************)
\* data.count(pattern): non-overlapping occurrences, len(data)+1 for "".
RECURSIVE str_count(_, _)
str_count(data, pattern) ==
    IF pattern = <<>> THEN Len(data) + 1
    ELSE IF Len(data) < Len(pattern) THEN 0
    ELSE IF SubSeq(data, 1, Len(pattern)) = pattern
         THEN 1 + str_count(SubSeq(data, Len(pattern) + 1, Len(data)), pattern)
         ELSE str_count(Tail(data), pattern)

\* data.replace(pattern, repl): every non-overlapping occurrence, left to
\* right; "" is replaced before every character and at the end.
RECURSIVE str_replace(_, _, _)
str_replace(data, pattern, repl) ==
    IF pattern = <<>>
    THEN IF data = <<>> THEN repl
         ELSE repl \o <<Head(data)>> \o str_replace(Tail(data), pattern, repl)
    ELSE IF Len(data) < Len(pattern) THEN data
    ELSE IF SubSeq(data, 1, Len(pattern)) = pattern
         THEN repl \o str_replace(SubSeq(data, Len(pattern) + 1, Len(data)), pattern, repl)
         ELSE <<Head(data)>> \o str_replace(Tail(data), pattern, repl)

\* The replacement template of re.sub: "\" and a digit name a group, "\\"
\* is a backslash, every other character stands for itself ("$" included).
\* parse_template raises re.error on a reference to a group the pattern
\* does not have and on any other escape of the model's alphabet.
RECURSIVE parse_template(_, _, _)
parse_template(repl, i, ngroups) ==
    IF i > Len(repl) THEN TRUE
    ELSE IF repl[i] # BACKSLASH THEN parse_template(repl, i + 1, ngroups)
    ELSE IF i = Len(repl) THEN FALSE
    ELSE IF repl[i + 1] = BACKSLASH THEN parse_template(repl, i + 2, ngroups)
    ELSE IF repl[i + 1] \in Digits \ {"0"}
    THEN /\ \E g \in 1..ngroups : repl[i + 1] = ToString(g)
         /\ parse_template(repl, i + 2, ngroups)
    ELSE FALSE

\* A group reference written "$" digit, as in other regex dialects.
RECURSIVE expand_template_dollar(_, _, _)
expand_template_dollar(repl, s, caps) ==
    IF repl = <<>> THEN <<>>
    ELSE IF Head(repl) \in {BACKSLASH, "$"} /\ Len(repl) >= 2
    THEN IF repl[2] = BACKSLASH
         THEN <<BACKSLASH>> \o expand_template_dollar(SubSeq(repl, 3, Len(repl)), s, caps)
         ELSE IF \E n \in DOMAIN caps : ToString(n) = repl[2]
         THEN LET g == CHOOSE n \in DOMAIN caps : ToString(n) = repl[2]
              IN  SubSeq(s, caps[g].s + 1, caps[g].e)
                  \o expand_template_dollar(SubSeq(repl, 3, Len(repl)), s, caps)
         ELSE <<Head(repl)>> \o expand_template_dollar(Tail(repl), s, caps)
    ELSE <<Head(repl)>> \o expand_template_dollar(Tail(repl), s, caps)

\* The text a parsed template stands for, given the group spans of a match.
RECURSIVE expand_template(_, _, _)
expand_template(repl, s, caps) ==
    IF repl = <<>> THEN <<>>
    ELSE IF Head(repl) = BACKSLASH /\ Len(repl) >= 2
    THEN IF repl[2] = BACKSLASH
         THEN <<BACKSLASH>> \o expand_template(SubSeq(repl, 3, Len(repl)), s, caps)
         ELSE LET g == CHOOSE n \in 1..9 : ToString(n) = repl[2]
              IN  SubSeq(s, caps[g].s + 1, caps[g].e)
                  \o expand_template(SubSeq(repl, 3, Len(repl)), s, caps)
    ELSE <<Head(repl)>> \o expand_template(Tail(repl), s, caps)

\* re.subn raises re.error: the pattern does not compile, or the template
\* does not parse (both before any match is looked for).
re_error(pattern, repl) ==
    LET rx == re_compile(pattern)
    IN  ~rx.ok \/ ~parse_template(repl, 1, rx.groups)

\* The substitution loop of re.subn from offset pos on: the leftmost match
\* is replaced, the search resumes at its end; after an empty match one
\* character is copied, so that the next match starts further on.
RECURSIVE sre_subn(_, _, _, _)
sre_subn(rx, repl, s, pos) ==
    LET m == sre_search(rx, s, pos)
    IN  IF ~m.ok THEN [new |-> SubSeq(s, pos + 1, Len(s)), count |-> 0]
        ELSE LET piece == SubSeq(s, pos + 1, m.start) \o expand_template(repl, s, m.caps)
             IN  IF m.end > m.start
                 THEN LET r == sre_subn(rx, repl, s, m.end)
                      IN  [new |-> piece \o r.new, count |-> 1 + r.count]
                 ELSE IF m.start = Len(s)
                 THEN [new |-> piece, count |-> 1]
                 ELSE LET r == sre_subn(rx, repl, s, m.start + 1)
                      IN  [new |-> piece \o <<s[m.start + 1]>> \o r.new,
                           count |-> 1 + r.count]

\* re.subn(pattern, repl, data), for a pattern and a template that parse:
\* the leftmost non-overlapping matches are replaced and counted.
re_subn(pattern, repl, data) == sre_subn(re_compile(pattern), repl, data, 0)

\* replace(path, pattern, repl, regex=...)
replace(data, pattern, repl, regex) ==
    IF regex THEN re_subn(pattern, repl, data)
    ELSE [new |-> str_replace(data, pattern, repl), count |-> str_count(data, pattern)]

\* sed(path, pattern, repl), flags=0
sed(data, pattern, repl) == re_subn(pattern, repl, data)

(***************************************************************************)
(* grep(pattern, path, ignore_case=..., literal=..., context=...)          *)
(***************************************************************************)
\* str.lower(), on the letters of the model.
LowerChar(c) == IF c = "A" THEN "a" ELSE IF c = "B" THEN "b" ELSE c
lower(s) == [i \in 1..Len(s) |-> LowerChar(s[i])]

\* match_fn(line) of grep and rgrep.  With re.IGNORECASE a pattern of
\* ordinary characters is searched for without regard to case.
match_fn(pattern, line, ignore_case, literal) ==
    IF literal
    THEN IF ignore_case THEN StrIn(lower(pattern), lower(line))
         ELSE StrIn(pattern, line)
    ELSE IF ignore_case THEN ReSearch(lower(pattern), lower(line))
         ELSE ReSearch(pattern, line)

\* sorted(S) for a set of integers.
RECURSIVE sorted(_)
sorted(S) ==
    IF S = {} THEN <<>>
    ELSE LET m == CHOOSE x \in S : \A y \in S : x <= y
         IN  <<m>> \o sorted(S \ {m})

\* A window that leaves out its last line (range(-context, context)).
context_window_short(ln, context) == {ln + offset : offset \in (0 - context)..(context - 1)}

\* {ln + offset for offset in range(-context, context + 1)}
context_window(ln, context) == {ln + offset : offset \in (0 - context)..context}

grep(data, pattern, ignore_case, literal, context) ==
    LET all_lines == splitlines(data)
        match_lines == {i \in 1..Len(all_lines) :
                           match_fn(pattern, all_lines[i], ignore_case, literal)}
        expanded == UNION {context_window(ln, context) : ln \in match_lines}
        output_lines == IF context > 0
                        THEN sorted({ln \in expanded : 1 <= ln /\ ln <= Len(all_lines)})
                        ELSE sorted(match_lines)
    IN  [i \in 1..Len(output_lines) |->
            <<output_lines[i], all_lines[output_lines[i]]>>]

(***************************************************************************)
(* Paths.  A path is the sequence of its parts, each part a string; the    *)
(* first part of an absolute path is "/".                                  *)
(***************************************************************************)
SLASH == "/"
RootPart == <<SLASH>>

\* "/".join(names)
RECURSIVE JoinSlash(_)
JoinSlash(names) ==
    IF names = <<>> THEN <<>>
    ELSE IF Len(names) = 1 THEN names[1]
    ELSE names[1] \o <<SLASH>> \o JoinSlash(Tail(names))

\* str(path)
PathStr(parts) ==
    IF parts = <<>> THEN <<".">>
    ELSE IF parts[1] = RootPart THEN <<SLASH>> \o JoinSlash(Tail(parts))
    ELSE JoinSlash(parts)

\* path.parent
Parent(parts) == IF Len(parts) <= 1 THEN parts ELSE SubSeq(parts, 1, Len(parts) - 1)

\* s.startswith(prefix)
startswith(s, prefix) ==
    Len(s) >= Len(prefix) /\ SubSeq(s, 1, Len(prefix)) = prefix

\* fnmatch.fnmatch(name, pat) on POSIX (no case folding), for patterns made
\* of "*", "?" and ordinary characters: does name[i..] match pat[j..]?
\* A run of "*" is one "*", as fnmatch.translate compresses it.
RECURSIVE FnMatchFrom(_, _, _, _)
FnMatchFrom(name, pat, i, j) ==
    IF j > Len(pat) THEN i > Len(name)
    ELSE IF pat[j] = "*"
         THEN IF j = Len(pat) THEN TRUE
              ELSE IF pat[j + 1] = "*" THEN FnMatchFrom(name, pat, i, j + 1)
              ELSE \E k \in i..Len(name) : FnMatchFrom(name, pat, k, j + 1)
         ELSE /\ i <= Len(name)
              /\ (pat[j] = "?" \/ pat[j] = name[i])
              /\ FnMatchFrom(name, pat, i + 1, j + 1)

fnmatch(name, pat) == FnMatchFrom(name, pat, 1, 1)

(***************************************************************************)
(* _load_gitignore_patterns and _match_gitignore.                          *)
(***************************************************************************)
GitignoreName == <<".", "g", "i", "t", "i", "g", "n", "o", "r", "e">>
AnywherePrefix == <<"*", "*", SLASH>>

\* The built-in patterns without the node_modules pair.
BuiltinPatterns_git_only ==
    << <<"*", "*", SLASH, ".", "g", "i", "t">>,
       <<"*", "*", SLASH, ".", "g", "i", "t", SLASH, "*", "*">> >>

\* ["**/.git", "**/.git/**", "**/node_modules", "**/node_modules/**"]
BuiltinPatterns ==
    << <<"*", "*", SLASH, ".", "g", "i", "t">>,
       <<"*", "*", SLASH, ".", "g", "i", "t", SLASH, "*", "*">>,
       <<"*", "*", SLASH, "n", "o", "d", "e", "_", "m", "o", "d", "u", "l", "e", "s">>,
       <<"*", "*", SLASH, "n", "o", "d", "e", "_", "m", "o", "d", "u", "l", "e", "s",
         SLASH, "*", "*">> >>

MaxLevels == 20

\* str.strip(), for the whitespace of the model: blanks and tabs.
RECURSIVE lstrip(_)
lstrip(s) ==
    IF s # <<>> /\ Head(s) \in {" ", "\t"} THEN lstrip(Tail(s)) ELSE s
RECURSIVE rstrip(_)
rstrip(s) ==
    IF s # <<>> /\ s[Len(s)] \in {" ", "\t"} THEN rstrip(SubSeq(s, 1, Len(s) - 1)) ELSE s
strip(s) == rstrip(lstrip(s))

\* str(current / line[1:]) for a line that starts with "/".
Anchored(current, line) ==
    LET rest == Tail(line)
    IN  IF rest = <<>> THEN PathStr(current)
        ELSE IF current = <<RootPart>> THEN <<SLASH>> \o rest
        ELSE PathStr(current) \o <<SLASH>> \o rest

\* The patterns one ignore file adds, from its lines.
RECURSIVE PatternsOfLines(_, _)
PatternsOfLines(ls, current) ==
    IF ls = <<>> THEN <<>>
    ELSE LET line == strip(Head(ls))
             rest == PatternsOfLines(Tail(ls), current)
         IN  IF line # <<>> /\ ~startswith(line, <<"#">>)
             THEN IF startswith(line, <<SLASH>>)
                  THEN <<Anchored(current, line)>> \o rest
                  ELSE <<AnywherePrefix \o line>> \o rest
             ELSE rest

\* The ignore file of directory `current`: absent (current is not in the
\* domain of ignoreAt), or ignoreAt[current] tells whether read_text returns
\* (readable) and the bytes of the file.  The loop body of
\* _load_gitignore_patterns for that directory, once exists() has returned.
PatternsAt(current, ignoreAt) ==
    IF current \notin DOMAIN ignoreAt THEN <<>>
    ELSE IF ignoreAt[current].readable
         THEN PatternsOfLines(splitlines(read_text(ignoreAt[current].bytes)), current)
         ELSE <<>>

\* for _ in range(20): ... current = parent, stopping at the root.
RECURSIVE LoadFrom(_, _, _)
LoadFrom(current, n, ignoreAt) ==
    IF n = 0 THEN <<>>
    ELSE PatternsAt(current, ignoreAt)
         \o (IF Parent(current) = current THEN <<>>
             ELSE LoadFrom(Parent(current), n - 1, ignoreAt))

\* _load_gitignore_patterns(base), base.resolve() = baseAbs.
load_gitignore_patterns(baseAbs, ignoreAt) ==
    BuiltinPatterns \o LoadFrom(baseAbs, MaxLevels, ignoreAt)

\* gitignore.exists() is Path.stat() with ENOENT, ENOTDIR, EBADF and ELOOP
\* turned into False: any other error of stat, such as EACCES for a file
\* below a directory the process may not search, is raised, and nothing
\* in _load_gitignore_patterns catches it.
exists_raises(current, ignoreAt) ==
    current \in DOMAIN ignoreAt /\ ignoreAt[current].stat = "EACCES"

\* The directories the loop visits, from the base upwards.
RECURSIVE LoadLevels(_, _)
LoadLevels(current, n) ==
    IF n = 0 THEN <<>>
    ELSE <<current>> \o (IF Parent(current) = current THEN <<>>
                         ELSE LoadLevels(Parent(current), n - 1))

\* The call of _load_gitignore_patterns as a whole: the exception that
\* leaves it ("none" if it returns), the patterns returned and the number
\* of directories visited.
load_call(baseAbs, ignoreAt) ==
    LET levels == LoadLevels(baseAbs, MaxLevels)
        bad == {i \in 1..Len(levels) : exists_raises(levels[i], ignoreAt)}
    IN  IF bad # {}
        THEN [raised |-> "PermissionError", patterns |-> <<>>,
              visited |-> CHOOSE i \in bad : \A j \in bad : i <= j]
        ELSE [raised |-> "none", patterns |-> load_gitignore_patterns(baseAbs, ignoreAt),
              visited |-> Len(levels)]

\* _match_gitignore(path, patterns, base) for a path below base: parts are
\* path.parts, rel the parts of path.relative_to(base), absParts those of
\* path.resolve().
match_gitignore(parts, relParts, absParts, patterns) ==
    LET rel == PathStr(relParts)
        abs_path == PathStr(absParts)
    IN  \E n \in 1..Len(patterns) :
            LET pat == patterns[n]
                tail3 == SubSeq(pat, 4, Len(pat))
            IN  IF startswith(pat, AnywherePrefix)
                THEN \/ fnmatch(rel, pat)
                     \/ fnmatch(rel, tail3)
                     \/ \E i \in 1..Len(parts) : fnmatch(parts[i], tail3)
                ELSE \/ fnmatch(abs_path, pat)
                     \/ fnmatch(rel, pat)

\* any(part.startswith(".") for part in parts)
AnyHidden(parts) == \E i \in 1..Len(parts) : startswith(parts[i], <<".">>)

(***************************************************************************)
(* Traversal: Path.rglob, and the filters of find, rgrep and rsed.  An     *)
(* entry of the tree is named by its parts relative to the base; sd is the *)
(* tree, sd[d] being the entries of directory d in os.scandir order.       *)
(***************************************************************************)
\* The directories rglob visits: d, then the directories below each of its
\* subdirectories, taken in scandir order.
RECURSIVE WalkDirs(_, _)
RECURSIVE WalkEach(_, _)
WalkDirs(d, sd) == <<d>> \o WalkEach(sd[d], sd)
WalkEach(entries, sd) ==
    IF entries = <<>> THEN <<>>
    ELSE (IF Head(entries) \in DOMAIN sd THEN WalkDirs(Head(entries), sd) ELSE <<>>)
         \o WalkEach(Tail(entries), sd)

\* The entries of one directory whose name matches the pattern.
RECURSIVE SelectNames(_, _)
SelectNames(entries, pattern) ==
    IF entries = <<>> THEN <<>>
    ELSE LET e == Head(entries)
         IN  (IF fnmatch(e[Len(e)], pattern) THEN <<e>> ELSE <<>>)
             \o SelectNames(Tail(entries), pattern)

RECURSIVE SelectIn(_, _, _)
SelectIn(dirs, pattern, sd) ==
    IF dirs = <<>> THEN <<>>
    ELSE SelectNames(sd[Head(dirs)], pattern) \o SelectIn(Tail(dirs), pattern, sd)

\* base.rglob(pattern), for a pattern of one component: the enumeration.
rglob(pattern, sd) == SelectIn(WalkDirs(<<>>, sd), pattern, sd)

\* Code points order the characters of the names of the model.
CharOrder == <<".", "/", "_", "a", "b", "c", "d", "e", "g", "i", "l", "m", "n",
               "o", "r", "s", "t", "u", "x", "y", "z">>
Ord(c) == CHOOSE i \in 1..Len(CharOrder) : CharOrder[i] = c

\* a < b on str
RECURSIVE StrLess(_, _)
StrLess(a, b) ==
    IF b = <<>> THEN FALSE
    ELSE IF a = <<>> THEN TRUE
    ELSE IF Head(a) = Head(b) THEN StrLess(Tail(a), Tail(b))
    ELSE Ord(Head(a)) < Ord(Head(b))

\* p < q on Path: the parts are compared as tuples.  The paths compared
\* share the parts of the base, so their relative parts decide.
RECURSIVE PathLess(_, _)
PathLess(p, q) ==
    IF q = <<>> THEN FALSE
    ELSE IF p = <<>> THEN TRUE
    ELSE IF Head(p) = Head(q) THEN PathLess(Tail(p), Tail(q))
    ELSE StrLess(Head(p), Head(q))

\* matches.sort() and matches.sort(key=st_mtime, reverse=True): list.sort is
\* stable, and with reverse=True equal keys keep their order too.
SortsBefore(x, y, byMtime, mt) == IF byMtime THEN mt[x] > mt[y] ELSE PathLess(x, y)

RECURSIVE list_sort(_, _, _)
list_sort(s, byMtime, mt) ==
    IF s = <<>> THEN <<>>
    ELSE LET x == s[Len(s)]
             t == list_sort(SubSeq(s, 1, Len(s) - 1), byMtime, mt)
             k == Cardinality({i \in 1..Len(t) : ~SortsBefore(x, t[i], byMtime, mt)})
         IN  SubSeq(t, 1, k) \o <<x>> \o SubSeq(t, k + 1, Len(t))

\* The filters of find on entry m, after the limit test.
FindAccepts(m, c, patterns, baseAbs, sd) ==
    /\ ~(c.maxdepth.given /\ Len(m) > c.maxdepth.n)
    /\ ~(c.mindepth.given /\ Len(m) < c.mindepth.n)
    /\ ~(~c.hidden /\ AnyHidden(baseAbs \o m))
    /\ ~match_gitignore(baseAbs \o m, m, baseAbs \o m, patterns)
    /\ ~(c.type = "file" /\ m \in DOMAIN sd)
    /\ ~(c.type = "dir" /\ m \notin DOMAIN sd)

\* The loop of find whose limit test lets one match too many through.
RECURSIVE FindScan_late_break(_, _, _, _, _, _)
FindScan_late_break(todo, matches, c, patterns, baseAbs, sd) ==
    IF todo = <<>> \/ Len(matches) > c.limit THEN matches
    ELSE FindScan_late_break(Tail(todo),
                  IF FindAccepts(Head(todo), c, patterns, baseAbs, sd)
                  THEN Append(matches, Head(todo)) ELSE matches,
                  c, patterns, baseAbs, sd)

\* for m in p.rglob(pattern): if len(matches) >= limit: break ...
RECURSIVE FindScan(_, _, _, _, _, _)
FindScan(todo, matches, c, patterns, baseAbs, sd) ==
    IF todo = <<>> \/ Len(matches) >= c.limit THEN matches
    ELSE FindScan(Tail(todo),
                  IF FindAccepts(Head(todo), c, patterns, baseAbs, sd)
                  THEN Append(matches, Head(todo)) ELSE matches,
                  c, patterns, baseAbs, sd)

\* find(pattern, path, type=..., limit=..., hidden=..., sort_by_mtime=...,
\*      maxdepth=..., mindepth=...)
find(c, baseAbs, sd, ignoreAt, mt) ==
    list_sort(FindScan(rglob(c.pattern, sd), <<>>, c,
                       load_gitignore_patterns(baseAbs, ignoreAt), baseAbs, sd),
              c.sort_by_mtime, mt)

\* The filters rgrep and rsed share: not a directory, not hidden, not ignored.
Selected(m, hidden, patterns, b, sd) ==
    /\ m \notin DOMAIN sd
    /\ ~(~hidden /\ AnyHidden(b.given \o m))
    /\ ~match_gitignore(b.given \o m, m, b.abs \o m, patterns)

NoFault == [file |-> <<>>, kind |-> "none"]
ReadRaises(f, flt) == flt.file = f /\ flt.kind = "read"
WriteRaises(f, flt) == flt.file = f /\ flt.kind = "write"

\* for i, line in enumerate(lines, 1): if len(hits) >= limit: break ...
RECURSIVE RgrepLines(_, _, _, _, _)
RgrepLines(f, ls, i, hits, c) ==
    IF i > Len(ls) \/ Len(hits) >= c.limit THEN hits
    ELSE RgrepLines(f, ls, i + 1,
                    IF match_fn(c.pattern, ls[i], c.ignore_case, c.literal)
                    THEN Append(hits, <<f, i, ls[i]>>) ELSE hits,
                    c)

\* for file_path in base.rglob(glob_pattern): if len(hits) >= limit: break ...
RECURSIVE RgrepScan(_, _, _, _, _, _, _, _)
RgrepScan(todo, hits, c, patterns, b, sd, fs, flt) ==
    IF todo = <<>> \/ Len(hits) >= c.limit THEN hits
    ELSE LET f == Head(todo)
             more == IF ~Selected(f, c.hidden, patterns, b, sd) THEN hits
                     ELSE IF ReadRaises(f, flt) THEN hits
                     ELSE RgrepLines(f, splitlines(read_text(fs[f])), 1, hits, c)
         IN  RgrepScan(Tail(todo), more, c, patterns, b, sd, fs, flt)

\* rgrep(pattern, path, glob_pattern=..., ignore_case=..., literal=...,
\*       limit=..., hidden=...)
rgrep(c, b, sd, ignoreAt, fs, flt) ==
    RgrepScan(rglob(c.glob_pattern, sd), <<>>, c,
              load_gitignore_patterns(b.abs, ignoreAt), b, sd, fs, flt)

PreviewCap == 10

\* The time of a write: later than every st_mtime of the tree.
Now(mt) == 1 + (CHOOSE t \in {mt[e] : e \in DOMAIN mt} :
                   \A e \in DOMAIN mt : mt[e] <= t)

\* One iteration of the loop of rsed without the test count > 0: every
\* selected file is written and reported.
rsed_file_always_writes(st, f, c, patterns, b, sd, flt, truncated) ==
    IF ~Selected(f, c.hidden, patterns, b, sd) \/ ReadRaises(f, flt) THEN st
    ELSE LET r == re_subn(c.pattern, c.repl, read_text(st.files[f]))
         IN  IF WriteRaises(f, flt)
             THEN IF truncated
                  THEN [st EXCEPT !.files[f] = <<>>, !.mtime[f] = Now(st.mtime)]
                  ELSE st
             ELSE [st EXCEPT
                      !.files[f] = r.new,
                      !.mtime[f] = Now(st.mtime),
                      !.total = @ + r.count,
                      !.files_changed = @ + 1,
                      !.changed_files =
                          IF Len(@) < PreviewCap
                          THEN Append(@, [file |-> f, count |-> r.count])
                          ELSE @]

\* One iteration of the loop of rsed that counts the file before writing it.
rsed_file_counts_first(st, f, c, patterns, b, sd, flt, truncated) ==
    IF ~Selected(f, c.hidden, patterns, b, sd) \/ ReadRaises(f, flt) THEN st
    ELSE LET r == re_subn(c.pattern, c.repl, read_text(st.files[f]))
         IN  IF r.count > 0
             THEN IF WriteRaises(f, flt)
                  THEN [st EXCEPT !.total = @ + r.count, !.files_changed = @ + 1]
                  ELSE [st EXCEPT
                           !.files[f] = r.new,
                           !.mtime[f] = Now(st.mtime),
                           !.total = @ + r.count,
                           !.files_changed = @ + 1,
                           !.changed_files =
                               IF Len(@) < PreviewCap
                               THEN Append(@, [file |-> f, count |-> r.count])
                               ELSE @]
             ELSE st

\* The loop body with the preview capped by "<=": it grows to one entry more.
rsed_file_cap_off_by_one(st, f, c, patterns, b, sd, flt, truncated) ==
    IF ~Selected(f, c.hidden, patterns, b, sd) THEN st
    ELSE IF ReadRaises(f, flt) THEN st
    ELSE LET r == re_subn(c.pattern, c.repl, read_text(st.files[f]))
         IN  IF r.count > 0
             THEN IF WriteRaises(f, flt)
                  THEN IF truncated
                       THEN [st EXCEPT !.files[f] = <<>>, !.mtime[f] = Now(st.mtime)]
                       ELSE st
                  ELSE [st EXCEPT
                           !.files[f] = r.new,
                           !.mtime[f] = Now(st.mtime),
                           !.total = @ + r.count,
                           !.files_changed = @ + 1,
                           !.changed_files =
                               IF Len(@) <= PreviewCap
                               THEN Append(@, [file |-> f, count |-> r.count])
                               ELSE @]
             ELSE st

\* One iteration of the loop of rsed, on entry f: st holds total,
\* files_changed, changed_files and the files and their st_mtime.  When
\* write_text raises, it has either failed to open the file or truncated it
\* already (truncated).
rsed_file(st, f, c, patterns, b, sd, flt, truncated) ==
    IF ~Selected(f, c.hidden, patterns, b, sd) THEN st
    ELSE IF ReadRaises(f, flt) THEN st
    ELSE LET r == re_subn(c.pattern, c.repl, read_text(st.files[f]))
         IN  IF r.count > 0
             THEN IF WriteRaises(f, flt)
                  THEN IF truncated
                       THEN [st EXCEPT !.files[f] = <<>>, !.mtime[f] = Now(st.mtime)]
                       ELSE st
                  ELSE [st EXCEPT
                           !.files[f] = r.new,
                           !.mtime[f] = Now(st.mtime),
                           !.total = @ + r.count,
                           !.files_changed = @ + 1,
                           !.changed_files =
                               IF Len(@) < PreviewCap
                               THEN Append(@, [file |-> f, count |-> r.count])
                               ELSE @]
             ELSE st

\* The whole loop of rsed over an enumeration, when no write is cut short.
RECURSIVE rsed_loop(_, _, _, _, _, _, _)
rsed_loop(todo, st, c, patterns, b, sd, flt) ==
    IF todo = <<>> THEN st
    ELSE rsed_loop(Tail(todo),
                   rsed_file(st, Head(todo), c, patterns, b, sd, flt, FALSE),
                   c, patterns, b, sd, flt)

(***************************************************************************)
(* Inputs of the line operations.                                          *)
(***************************************************************************)
Alphabet == {"a", "b", NL, CR}

\* All strings over S of length at most n.
RECURSIVE StringsUpTo(_, _)
StringsUpTo(S, n) ==
    IF n = 0 THEN {<<>>}
    ELSE LET shorter == StringsUpTo(S, n - 1)
         IN  shorter \cup {Append(s, c) : s \in {t \in shorter : Len(t) = n - 1}, c \in S}

Contents == StringsUpTo(Alphabet, MaxLen)

\* start, end and line_num arguments: below, inside and beyond every file.
ArgRange == (0 - 2)..(MaxLen + 1)

\* pattern arguments: the empty pattern and patterns of ordinary characters.
Patterns == {<<>>, <<"a">>, <<"b">>, <<"a", "b">>}

\* text arguments of insert_at other than a text extracted by lines().
Texts == {<<>>, <<"a">>, <<"b", NL, "a">>, <<"a", NL>>}

Call(op, start, end, endNone, pattern, regex, text, after, before, new, count, out) ==
    [op |-> op, start |-> start, end |-> end, endNone |-> endNone,
     pattern |-> pattern, regex |-> regex, text |-> text, after |-> after,
     before |-> before, new |-> new, count |-> count, out |-> out]

Last == hist[Len(hist)]

\* Number of lines of a file, as every line operation counts them.
LineCount(bytes) == Len(splitlines(read_text(bytes)))

(***************************************************************************)
(* The line operations as steps on one file.  A step is the whole call:    *)
(* read_text, the transformation, write_text.                              *)
(***************************************************************************)
NoWrite == [pc |-> "idle"]
NoCall == [op |-> "none", pc |-> "idle"]

\* The specifications of the single-file operations use no tree.
NoTree ==
    /\ scandir = <<>>
    /\ files = <<>>
    /\ mtime = <<>>
    /\ fault = NoFault
    /\ base = [given |-> <<>>, abs |-> <<>>]
    /\ call = NoCall

LInit ==
    /\ fileData \in Contents
    /\ hist = <<>>
    /\ io = NoWrite
    /\ target = "file"
    /\ NoTree

\* t = lines(path, start, end), on a range inside the file.
Lines(start, end) ==
    /\ hist = <<>>
    /\ 1 <= start /\ start <= end /\ end <= LineCount(fileData)
    /\ LET out == lines(read_text(fileData), start, end, FALSE)
       IN  hist' = Append(hist, Call("lines", start, end, FALSE, <<>>, FALSE, <<>>,
                                     FALSE, fileData, fileData, 0, out))
    /\ UNCHANGED <<fileData, io>>
    /\ UNCHANGED <<target, treeVars>>

\* delete_lines(path, start, end): any range on a fresh file, or the range
\* just extracted by lines().
DeleteLines(start, end, endNone) ==
    /\ \/ hist = <<>> /\ (endNone => end = start)
       \/ /\ Len(hist) = 1 /\ Last.op = "lines"
          /\ start = Last.start /\ end = Last.end /\ ~endNone
    /\ LET r == delete_lines(read_text(fileData), start, end, endNone)
       IN  /\ fileData' = r.new
           /\ hist' = Append(hist, Call("delete_lines", start, end, endNone, <<>>,
                                         FALSE, <<>>, FALSE, fileData, r.new,
                                         r.count, <<>>))
    /\ UNCHANGED io
    /\ UNCHANGED <<target, treeVars>>

\* delete_matching(path, pattern, regex=...): on a fresh file, or again with
\* the arguments of the run just made.
DeleteMatching(pattern, regex) ==
    /\ \/ hist = <<>>
       \/ /\ hist # <<>> /\ Len(hist) < MaxRuns /\ Last.op = "delete_matching"
          /\ pattern = Last.pattern /\ regex = Last.regex
    /\ LET r == delete_matching(read_text(fileData), pattern, regex)
       IN  /\ fileData' = r.new
           /\ hist' = Append(hist, Call("delete_matching", 0, 0, FALSE, pattern,
                                         regex, <<>>, FALSE, fileData, r.new,
                                         r.count, <<>>))
    /\ UNCHANGED io
    /\ UNCHANGED <<target, treeVars>>

\* insert_at(path, line_num, text, after=...): a given text on a fresh file,
\* or the text extracted by lines() after its range was deleted.
InsertAt(line_num, text, after) ==
    /\ \/ hist = <<>> /\ text \in Texts
       \/ /\ Len(hist) = 2 /\ hist[1].op = "lines" /\ hist[2].op = "delete_lines"
          /\ text = hist[1].out
    /\ LET r == insert_at(read_text(fileData), line_num, text, after)
       IN  /\ fileData' = r.new
           /\ hist' = Append(hist, Call("insert_at", line_num, 0, FALSE, <<>>, FALSE,
                                         text, after, fileData, r.new, r.count, <<>>))
    /\ UNCHANGED io
    /\ UNCHANGED <<target, treeVars>>

LNext ==
    \/ \E start \in ArgRange, end \in ArgRange : Lines(start, end)
    \/ \E start \in ArgRange, end \in ArgRange, endNone \in BOOLEAN :
           DeleteLines(start, end, endNone)
    \/ \E pattern \in Patterns, regex \in BOOLEAN : DeleteMatching(pattern, regex)
    \/ \E line_num \in ArgRange, text \in Texts \cup {hist[i].out : i \in 1..Len(hist)},
          after \in BOOLEAN : InsertAt(line_num, text, after)

Spec == LInit /\ [][LNext]_vars

(***************************************************************************)
(* grep on one file: files of up to MaxGrepLines one-letter lines.         *)
(***************************************************************************)
MaxGrepLines == 10
MaxContext == 2

GrepLineTexts == {<<"a">>, <<"b">>}
GrepPatterns == {<<"a">>, <<"A">>}

RECURSIVE LineSeqs(_)
LineSeqs(n) ==
    IF n = 0 THEN {<<>>}
    ELSE LET shorter == LineSeqs(n - 1)
         IN  shorter \cup {Append(ls, t) : ls \in {x \in shorter : Len(x) = n - 1},
                                           t \in GrepLineTexts}

GInit ==
    /\ \E ls \in LineSeqs(MaxGrepLines) :
           fileData = IF ls = <<>> THEN <<>> ELSE join(ls) \o <<NL>>
    /\ hist = <<>>
    /\ io = NoWrite
    /\ target = "file"
    /\ NoTree

Grep(pattern, ignore_case, literal, context) ==
    /\ hist = <<>>
    /\ hist' = <<[op |-> "grep", pattern |-> pattern, ignore_case |-> ignore_case,
                  literal |-> literal, context |-> context, before |-> fileData,
                  hits |-> grep(read_text(fileData), pattern, ignore_case,
                                literal, context)]>>
    /\ UNCHANGED <<fileData, io>>
    /\ UNCHANGED <<target, treeVars>>

GNext ==
    \E pattern \in GrepPatterns, ignore_case \in BOOLEAN, literal \in BOOLEAN,
       context \in 0..MaxContext : Grep(pattern, ignore_case, literal, context)

SpecGrep == GInit /\ [][GNext]_vars

(***************************************************************************)
(* The write-back of a mutation, step by step.  Every mutation ends with   *)
(* p.write_text(new, encoding="utf-8"), which is                           *)
(*     with open(p, "w") as f: f.write(new)                                *)
(* open(..., "w") truncates the file; the text then reaches the file as the *)
(* buffer is flushed, at the latest when the file is closed.  The call can *)
(* be interrupted (KeyboardInterrupt, a signal, the kernel being shut      *)
(* down) between any two of these steps.                                   *)
(***************************************************************************)
WriteContents == StringsUpTo({"a", NL}, MaxWriteLen)

\* The mutations and the arguments they are called with.
Mutations ==
    {[op |-> "replace", pattern |-> <<"a">>, repl |-> r, regex |-> x] :
        r \in {<<"b">>, <<>>}, x \in BOOLEAN}
    \cup {[op |-> o, pattern |-> <<"a">>, repl |-> <<"b">>] : o \in {"sed", "rsed"}}
    \cup {[op |-> "delete_lines", start |-> i] : i \in 1..2}
    \cup {[op |-> "delete_matching", pattern |-> <<"a">>, regex |-> x] : x \in BOOLEAN}
    \cup {[op |-> "insert_at", line_num |-> 1, text |-> <<"b">>, after |-> x] :
            x \in BOOLEAN}

\* What mutation m computes from the content read: the text to write, and
\* whether it writes at all (rsed writes a file only when count > 0).
Transformed(m, data) ==
    IF m.op = "replace"
    THEN [new |-> replace(data, m.pattern, m.repl, m.regex).new, writes |-> TRUE]
    ELSE IF m.op = "sed"
    THEN [new |-> sed(data, m.pattern, m.repl).new, writes |-> TRUE]
    ELSE IF m.op = "rsed"
    THEN LET r == re_subn(m.pattern, m.repl, data)
         IN  [new |-> r.new, writes |-> r.count > 0]
    ELSE IF m.op = "delete_lines"
    THEN [new |-> delete_lines(data, m.start, m.start, TRUE).new, writes |-> TRUE]
    ELSE IF m.op = "delete_matching"
    THEN [new |-> delete_matching(data, m.pattern, m.regex).new, writes |-> TRUE]
    ELSE [new |-> insert_at(data, m.line_num, m.text, m.after).new, writes |-> TRUE]

WInit ==
    /\ fileData \in WriteContents
    /\ hist = <<>>
    /\ io = NoWrite
    /\ target = "file"
    /\ NoTree

\* The mutation reads the file and computes the new content in memory.
ReadAndTransform(m) ==
    /\ io.pc = "idle"
    /\ LET t == Transformed(m, read_text(fileData))
       IN  io' = [pc |-> IF t.writes THEN "open" ELSE "done", op |-> m.op,
                  old |-> fileData, new |-> t.new]
    /\ UNCHANGED <<fileData, hist>>
    /\ UNCHANGED <<target, treeVars>>

\* open(p, "w"): the file is truncated.
WriteOpen ==
    /\ io.pc = "open"
    /\ fileData' = <<>>
    /\ io' = [io EXCEPT !.pc = "write"]
    /\ UNCHANGED hist
    /\ UNCHANGED <<target, treeVars>>

\* A flush of part of the buffered text: the file holds a longer prefix.
WriteFlush(k) ==
    /\ io.pc = "write"
    /\ Len(fileData) < k /\ k < Len(io.new)
    /\ fileData' = SubSeq(io.new, 1, k)
    /\ UNCHANGED <<hist, io>>
    /\ UNCHANGED <<target, treeVars>>

\* The file is closed: all of the text is in the file.
WriteClose ==
    /\ io.pc = "write"
    /\ fileData' = io.new
    /\ io' = [io EXCEPT !.pc = "done"]
    /\ UNCHANGED hist
    /\ UNCHANGED <<target, treeVars>>

\* The call is interrupted during its write-back and never resumes.
Interrupt ==
    /\ io.pc \in {"open", "write"}
    /\ io' = [io EXCEPT !.pc = "interrupted"]
    /\ UNCHANGED <<fileData, hist>>
    /\ UNCHANGED <<target, treeVars>>

WNext ==
    \/ \E m \in Mutations : ReadAndTransform(m)
    \/ WriteOpen
    \/ \E k \in 1..(MaxWriteLen + 2) : WriteFlush(k)
    \/ WriteClose
    \/ Interrupt

SpecWrite == WInit /\ [][WNext]_vars

(***************************************************************************)
(* A single-target call as a whole, failures included.  Every operation    *)
(* starts with p.read_text(), which raises when the path names nothing     *)
(* (FileNotFoundError), a directory (IsADirectoryError) or a file that     *)
(* cannot be read or decoded (PermissionError, UnicodeDecodeError); the    *)
(* pattern is compiled next, the file is written last.  No operation       *)
(* catches an exception.                                                   *)
(***************************************************************************)
MaxCallLen == 3    \* longest generated file content of the calls below

\* The exception p.read_text() raises, "none" when it returns the content.
read_error(kind) ==
    IF kind = "missing" THEN "FileNotFoundError"
    ELSE IF kind = "dir" THEN "IsADirectoryError"
    ELSE IF kind = "unreadable" THEN "PermissionError"
    ELSE "none"

\* The call raises re.error: re.compile in grep and delete_matching, re.subn
\* in replace (regex=True) and sed.
pattern_error(c) ==
    IF c.op = "grep" THEN ~c.literal /\ ~re_compile(c.pattern).ok
    ELSE IF c.op = "delete_matching" THEN c.regex /\ ~re_compile(c.pattern).ok
    ELSE IF c.op = "replace" THEN c.regex /\ re_error(c.pattern, c.repl)
    ELSE IF c.op = "sed" THEN re_error(c.pattern, c.repl)
    ELSE FALSE

\* An editing operation ends with p.write_text(new) and returns its count.
Wrote(r) == [writes |-> TRUE, new |-> r.new, ret |-> r.count]

\* What the call computes from the content read: the value it returns, the
\* text it writes back, and whether it writes (grep and lines do not).
Applied(c, data) ==
    IF c.op = "grep"
    THEN [writes |-> FALSE, new |-> <<>>,
          ret |-> grep(data, c.pattern, c.ignore_case, c.literal, c.context)]
    ELSE IF c.op = "lines"
    THEN [writes |-> FALSE, new |-> <<>>, ret |-> lines(data, c.start, c.end, c.endNone)]
    ELSE Wrote(IF c.op = "replace" THEN replace(data, c.pattern, c.repl, c.regex)
               ELSE IF c.op = "sed" THEN sed(data, c.pattern, c.repl)
               ELSE IF c.op = "delete_lines"
               THEN delete_lines(data, c.start, c.end, c.endNone)
               ELSE IF c.op = "delete_matching"
               THEN delete_matching(data, c.pattern, c.regex)
               ELSE insert_at(data, c.line_num, c.text, c.after))

Raised(e, bytes) == [raised |-> e, bytes |-> bytes, ret |-> <<>>]
Returned(bytes, ret) == [raised |-> "none", bytes |-> bytes, ret |-> ret]

\* The call returns: the file holds what was written, or what it held.
Completed(t, bytes) == Returned(IF t.writes THEN t.new ELSE bytes, t.ret)

\* A call that opens the file for writing before it compiles the pattern:
\* a malformed pattern leaves the file truncated.
single_target_writes_first(c, kind, bytes) ==
    IF read_error(kind) # "none" THEN Raised(read_error(kind), bytes)
    ELSE IF pattern_error(c) THEN Raised("re.error", <<>>)
    ELSE Completed(Applied(c, read_text(bytes)), bytes)

\* The call on a path of the given kind holding bytes: the exception that
\* reaches the caller ("none" if the call returns), the content of the file
\* afterwards, and the value returned.
single_target(c, kind, bytes) ==
    IF read_error(kind) # "none" THEN Raised(read_error(kind), bytes)
    ELSE IF pattern_error(c) THEN Raised("re.error", bytes)
    ELSE Completed(Applied(c, read_text(bytes)), bytes)

S_foo1_foo2 == <<"f", "o", "o", "1", " ", "f", "o", "o", "2">>
P_foo_digits == <<"f", "o", "o", "(", BACKSLASH, "d", "+", ")">>
R_bar_dollar1 == <<"b", "a", "r", "$", "1">>
R_bar_group1 == <<"b", "a", "r", BACKSLASH, "1">>

CallContents == {S_foo1_foo2, <<"o", "1", "2", "o">>} \cup StringsUpTo({"o", "1", NL}, MaxCallLen)

\* Patterns that compile, and patterns re.compile rejects.
WellFormed ==
    {P_foo_digits, <<"o">>, <<"o", "+">>, <<BACKSLASH, "d", "+">>,
     <<"(", BACKSLASH, "d", ")">>, <<"(", ")">>, <<>>}
Malformed == {<<"(">>, <<"o", ")">>, <<"+">>, <<"(", "+">>, <<BACKSLASH>>}
CallPatterns == WellFormed \cup Malformed

CallRepls ==
    {R_bar_dollar1, R_bar_group1, <<BACKSLASH, "2">>, <<>>, <<BACKSLASH, BACKSLASH>>,
     <<"x">>}

GrepCalls ==
    {[op |-> "grep", pattern |-> p, ignore_case |-> i, literal |-> l, context |-> k] :
        p \in CallPatterns, i \in BOOLEAN, l \in BOOLEAN, k \in 0..1}
LinesCalls ==
    {[op |-> "lines", start |-> a, end |-> b, endNone |-> n] :
        a \in 0..2, b \in {2}, n \in BOOLEAN}
ReplaceCalls ==
    {[op |-> "replace", pattern |-> p, repl |-> r, regex |-> x] :
        p \in CallPatterns, r \in CallRepls, x \in BOOLEAN}
SedCalls == {[op |-> "sed", pattern |-> p, repl |-> r] : p \in CallPatterns, r \in CallRepls}
DeleteLinesCalls ==
    {[op |-> "delete_lines", start |-> a, end |-> b, endNone |-> n] :
        a \in 0..2, b \in {2}, n \in BOOLEAN}
DeleteMatchingCalls ==
    {[op |-> "delete_matching", pattern |-> p, regex |-> x] :
        p \in CallPatterns, x \in BOOLEAN}
InsertAtCalls ==
    {[op |-> "insert_at", line_num |-> a, text |-> t, after |-> x] :
        a \in 0..2, t \in {<<>>, <<"o">>}, x \in BOOLEAN}

CInit ==
    /\ target \in {"file", "missing", "dir", "unreadable"}
    /\ fileData \in (IF target \in {"file", "unreadable"} THEN CallContents ELSE {<<>>})
    /\ hist = <<>>
    /\ io = NoWrite
    /\ NoTree

\* The call leaves the file as r.bytes and is recorded with its outcome.
Outcome(c, r) ==
    /\ fileData' = r.bytes
    /\ hist' = <<[op |-> c.op, args |-> c, before |-> fileData,
                  raised |-> r.raised, ret |-> r.ret]>>

\* One call, from its first statement to its return or to the exception.
Perform(c) ==
    /\ hist = <<>>
    /\ Outcome(c, single_target(c, target, fileData))
    /\ UNCHANGED <<io, target, treeVars>>

GrepCall(c) == c.op = "grep" /\ Perform(c)
LinesCall(c) == c.op = "lines" /\ Perform(c)
ReplaceCall(c) == c.op = "replace" /\ Perform(c)
SedCall(c) == c.op = "sed" /\ Perform(c)
DeleteLinesCall(c) == c.op = "delete_lines" /\ Perform(c)
DeleteMatchingCall(c) == c.op = "delete_matching" /\ Perform(c)
InsertAtCall(c) == c.op = "insert_at" /\ Perform(c)

CNext ==
    \/ \E c \in GrepCalls : GrepCall(c)
    \/ \E c \in LinesCalls : LinesCall(c)
    \/ \E c \in ReplaceCalls : ReplaceCall(c)
    \/ \E c \in SedCalls : SedCall(c)
    \/ \E c \in DeleteLinesCalls : DeleteLinesCall(c)
    \/ \E c \in DeleteMatchingCalls : DeleteMatchingCall(c)
    \/ \E c \in InsertAtCalls : InsertAtCall(c)

SpecCall == CInit /\ [][CNext]_vars

(***************************************************************************)
(* find, rgrep and rsed on a tree.  The base directory /r holds            *)
(*     a/  a/node_modules/  a/node_modules/x.txt  a/y.txt  z.txt           *)
(* and, in some behaviours, an ignore file .gitignore.                     *)
(***************************************************************************)
MaxLimit == 3      \* largest limit argument of find and rgrep

N_r == <<"r">>
N_a == <<"a">>
N_node_modules == <<"n", "o", "d", "e", "_", "m", "o", "d", "u", "l", "e", "s">>
N_x == <<"x", ".", "t", "x", "t">>
N_y == <<"y", ".", "t", "x", "t">>
N_z == <<"z", ".", "t", "x", "t">>

E_a == <<N_a>>
E_nm == <<N_a, N_node_modules>>
E_x == <<N_a, N_node_modules, N_x>>
E_y == <<N_a, N_y>>
E_z == <<N_z>>
E_gi == <<GitignoreName>>

\* All orders in which os.scandir may list the entries S of a directory.
Perms(S) ==
    {p \in [1..Cardinality(S) -> S] : \A i, j \in 1..Cardinality(S) : i # j => p[i] # p[j]}

Scandirs(withIgnoreFile) ==
    {(<<>> :> r) @@ (E_a :> a) @@ (E_nm :> <<E_x>>) :
        r \in Perms({E_a, E_z} \cup (IF withIgnoreFile THEN {E_gi} ELSE {})),
        a \in Perms({E_nm, E_y})}

\* File contents: two lines that hold "a", or one line that does not.
FileTexts == {<<"a", NL, "a">>, <<"b", NL>>}
\* Ignore files: y.txt anywhere, or the entry a of the directory of the file.
GitignoreTexts == {<<"y", ".", "t", "x", "t", NL>>, <<SLASH, "a", NL>>}

FileMaps(withIgnoreFile, texts) ==
    {(E_x :> <<"a", NL, "a">>) @@ (E_y :> y) @@ (E_z :> z) @@ g :
        y \in texts, z \in texts,
        g \in IF withIgnoreFile THEN {E_gi :> t : t \in GitignoreTexts} ELSE {<<>>}}

Entries(fs) == {E_a, E_nm} \cup DOMAIN fs
\* st_mtime before the call: a/y.txt is the newest entry, the others are
\* equally old.
Mtime0(fs) == [e \in Entries(fs) |-> IF e = E_y THEN 2 ELSE 1]

Bases == {[given |-> <<>>, abs |-> <<RootPart, N_r>>],
          [given |-> <<RootPart, N_r>>, abs |-> <<RootPart, N_r>>]}

\* Each behaviour makes one call.  find resolves its path and reads no file
\* but the ignore file; rgrep only reads; rsed reads and writes.
TInit ==
    /\ fileData = <<>> /\ hist = <<>> /\ io = NoWrite /\ target = "file"
    /\ \E g \in BOOLEAN :
          /\ scandir \in Scandirs(g)
          /\ \/ /\ call = [op |-> "find", pc |-> "ready"]
                /\ files \in FileMaps(g, {<<"a", NL, "a">>})
                /\ mtime = Mtime0(files)
                /\ fault \in {NoFault} \cup
                             (IF g THEN {[file |-> E_gi, kind |-> "read"]} ELSE {})
                /\ base = [given |-> <<RootPart, N_r>>, abs |-> <<RootPart, N_r>>]
             \/ /\ call = [op |-> "rgrep", pc |-> "ready"]
                /\ files \in FileMaps(g, FileTexts)
                /\ mtime = Mtime0(files)
                /\ fault \in {NoFault} \cup {[file |-> f, kind |-> "read"] : f \in {E_y, E_z}}
                /\ base = [given |-> <<>>, abs |-> <<RootPart, N_r>>]
             \/ /\ call = [op |-> "rsed", pc |-> "ready"]
                /\ files \in FileMaps(g, FileTexts)
                /\ mtime = Mtime0(files)
                /\ fault \in {NoFault} \cup {[file |-> f, kind |-> k] :
                                               f \in {E_y, E_z}, k \in {"read", "write"}}
                /\ base \in Bases

\* The ignore files _load_gitignore_patterns finds above and at the base.
IgnoreAt ==
    IF E_gi \in DOMAIN files
    THEN base.abs :> [stat |-> "ok", readable |-> ~ReadRaises(E_gi, fault),
                      bytes |-> files[E_gi]]
    ELSE <<>>

GlobPatterns == {<<"*">>, <<"*", ".", "t", "x", "t">>}
NoDepth == [given |-> FALSE, n |-> 0]

FindArgs ==
    {[pattern |-> g, type |-> t, limit |-> l, hidden |-> h, sort_by_mtime |-> s,
      maxdepth |-> d[1], mindepth |-> d[2]] :
        g \in GlobPatterns, t \in {"file", "dir", "any"}, l \in 0..MaxLimit,
        h \in BOOLEAN, s \in BOOLEAN,
        d \in {<<NoDepth, NoDepth>>,
               <<[given |-> TRUE, n |-> 2], [given |-> TRUE, n |-> 2]>>}}

RgrepArgs ==
    {[pattern |-> <<"a">>, glob_pattern |-> g, ignore_case |-> FALSE, literal |-> x,
      limit |-> l, hidden |-> h] :
        g \in GlobPatterns, x \in BOOLEAN, l \in 0..(MaxLimit + 1), h \in BOOLEAN}

RsedArgs ==
    {[pattern |-> <<"a">>, repl |-> <<"b">>, glob_pattern |-> g, hidden |-> h] :
        g \in GlobPatterns, h \in BOOLEAN}

Find(c) ==
    /\ call.op = "find" /\ call.pc = "ready"
    /\ call' = [op |-> "find", pc |-> "done", args |-> c,
                result |-> find(c, base.abs, scandir, IgnoreAt, mtime)]
    /\ UNCHANGED <<scandir, files, mtime, fault, base>>
    /\ UNCHANGED lineVars

Rgrep(c) ==
    /\ call.op = "rgrep" /\ call.pc = "ready"
    /\ call' = [op |-> "rgrep", pc |-> "done", args |-> c,
                result |-> rgrep(c, base, scandir, IgnoreAt, files, fault)]
    /\ UNCHANGED <<scandir, files, mtime, fault, base>>
    /\ UNCHANGED lineVars

\* rsed up to its loop: the ignore patterns are loaded, the totals are zero.
RsedStart(c) ==
    /\ call.op = "rsed" /\ call.pc = "ready"
    /\ call' = [op |-> "rsed", pc |-> "loop", args |-> c,
                ignore_patterns |-> load_gitignore_patterns(base.abs, IgnoreAt),
                todo |-> rglob(c.glob_pattern, scandir),
                total |-> 0, files_changed |-> 0, changed_files |-> <<>>,
                files0 |-> files, mtime0 |-> mtime]
    /\ UNCHANGED <<scandir, files, mtime, fault, base>>
    /\ UNCHANGED lineVars

\* One iteration of the loop of rsed.
RsedStep(truncated) ==
    /\ call.op = "rsed" /\ call.pc = "loop" /\ call.todo # <<>>
    /\ truncated => WriteRaises(Head(call.todo), fault)
    /\ LET st == [total |-> call.total, files_changed |-> call.files_changed,
                  changed_files |-> call.changed_files, files |-> files,
                  mtime |-> mtime]
           st1 == rsed_file(st, Head(call.todo), call.args, call.ignore_patterns,
                            base, scandir, fault, truncated)
       IN  /\ files' = st1.files
           /\ mtime' = st1.mtime
           /\ call' = [call EXCEPT !.todo = Tail(@), !.total = st1.total,
                                   !.files_changed = st1.files_changed,
                                   !.changed_files = st1.changed_files]
    /\ UNCHANGED <<scandir, fault, base>>
    /\ UNCHANGED lineVars

\* The loop of rsed is over: it returns total.
RsedReturn ==
    /\ call.op = "rsed" /\ call.pc = "loop" /\ call.todo = <<>>
    /\ call' = [call EXCEPT !.pc = "done"]
    /\ UNCHANGED <<scandir, files, mtime, fault, base>>
    /\ UNCHANGED lineVars

TNext ==
    \/ \E c \in FindArgs : Find(c)
    \/ \E c \in RgrepArgs : Rgrep(c)
    \/ \E c \in RsedArgs : RsedStart(c)
    \/ \E truncated \in BOOLEAN : RsedStep(truncated)
    \/ RsedReturn

SpecTree == TInit /\ [][TNext]_vars

(***************************************************************************)
(* The same tree below roots that differ in their ancestors: /r, /p/r,     *)
(* /.h/r and /node_modules/r, given by their absolute path, and /.h/r      *)
(* given as "." from inside it.  No directory holds an ignore file.        *)
(***************************************************************************)
N_p == <<"p">>
N_h == <<".", "h">>

RootBases ==
    {[given |-> <<RootPart>> \o above \o <<N_r>>, abs |-> <<RootPart>> \o above \o <<N_r>>] :
        above \in {<<>>, <<N_p>>, <<N_h>>, <<N_node_modules>>}}
    \cup {[given |-> <<>>, abs |-> <<RootPart, N_h, N_r>>]}

RInit ==
    /\ fileData = <<>> /\ hist = <<>> /\ io = NoWrite /\ target = "file"
    /\ scandir \in Scandirs(FALSE)
    /\ files \in FileMaps(FALSE, FileTexts)
    /\ mtime = Mtime0(files)
    /\ fault = NoFault
    /\ base \in RootBases
    /\ call \in {[op |-> o, pc |-> "ready"] : o \in {"find", "rgrep", "rsed"}}

SpecRoots == RInit /\ [][TNext]_vars

(***************************************************************************)
(* rsed on a directory of many files: /r holds up to MaxFiles files        *)
(* a.txt, b.txt, ..., listed by os.scandir in either order of their names. *)
(* All hold matches of the pattern but at most one of them.                *)
(***************************************************************************)
MaxFiles == 12

Letters == <<"a", "b", "c", "d", "e", "f", "g", "h", "i", "j", "k", "l", "m", "n">>
BatchEntry(i) == <<<<Letters[i], ".", "t", "x", "t">>>>

\* One match in the files of odd rank, two in the others; none in the
\* files of none.
BatchFiles(n, none) ==
    [e \in {BatchEntry(i) : i \in 1..n} |->
        LET i == CHOOSE k \in 1..n : BatchEntry(k) = e
        IN  IF i \in none THEN <<"b", NL>>
            ELSE IF i % 2 = 1 THEN <<"a", NL>> ELSE <<"a", NL, "a">>]

BInit ==
    /\ fileData = <<>> /\ hist = <<>> /\ io = NoWrite /\ target = "file"
    /\ call = [op |-> "rsed", pc |-> "ready"]
    /\ base = [given |-> <<RootPart, N_r>>, abs |-> <<RootPart, N_r>>]
    /\ \E n \in 0..MaxFiles :
          /\ scandir \in {<<>> :> [i \in 1..n |-> BatchEntry(i)],
                          <<>> :> [i \in 1..n |-> BatchEntry(n + 1 - i)]}
          /\ \E none \in {{}} \cup {{i} : i \in 1..n} : files = BatchFiles(n, none)
          /\ mtime = [e \in DOMAIN files |-> 1]
          /\ fault \in {NoFault} \cup
                       {[file |-> BatchEntry(1), kind |-> k] :
                           k \in IF n >= 1 THEN {"read", "write"} ELSE {}}

BNext ==
    \/ \E c \in RsedArgs : RsedStart(c)
    \/ \E truncated \in BOOLEAN : RsedStep(truncated)
    \/ RsedReturn

SpecBatch == BInit /\ [][BNext]_vars

(***************************************************************************)
(* The ignore-pattern loader alone, on a base directory /d/d/.../d of any  *)
(* depth up to MaxDepth.  files holds, for each directory, the state of    *)
(* the path of its ignore file: whether stat succeeds on it, whether       *)
(* read_text returns, and the bytes of the file.  Ignore files may lie in  *)
(* the base, in its parent, and 19 and 20 levels above the base.           *)
(***************************************************************************)
MaxDepth == 22

N_d == <<"d">>
DirAtDepth(k) == <<RootPart>> \o [i \in 1..k |-> N_d]

IgnoreOffsets == {0, 1, 19, 20}

\* An ignore file that exists: readable, or unreadable or undecodable
\* (read_text raises).
IgnoreStates ==
    {[stat |-> "ok", readable |-> TRUE, bytes |-> <<SLASH, "x", NL>>],
     [stat |-> "ok", readable |-> FALSE, bytes |-> <<SLASH, "x", NL>>]}

\* The path of an ignore file, present or not, below a directory the
\* process may not search: stat raises EACCES.
NoAccess == [stat |-> "EACCES", readable |-> FALSE, bytes |-> <<>>]

\* The directory `closed` levels above the base (none when closed = -1) is
\* not searchable, so that no path through it can be examined; the root is
\* always searchable.
PInit ==
    /\ fileData = <<>> /\ hist = <<>> /\ io = NoWrite /\ target = "file"
    /\ scandir = <<>> /\ mtime = <<>> /\ fault = NoFault
    /\ call = [op |-> "load", pc |-> "ready"]
    /\ \E depth \in 0..MaxDepth, closed \in (0 - 1)..1 :
          /\ closed < depth
          /\ base = [given |-> DirAtDepth(depth), abs |-> DirAtDepth(depth)]
          /\ \E at \in SUBSET {DirAtDepth(depth - o) :
                                  o \in {x \in IgnoreOffsets : closed < x /\ x <= depth}} :
             \E present \in [at -> IgnoreStates] :
                 files = present @@ [dir \in {DirAtDepth(depth - o) : o \in 0..closed}
                                        |-> NoAccess]

\* ignore_patterns = _load_gitignore_patterns(base)
Load ==
    /\ call.op = "load" /\ call.pc = "ready"
    /\ LET r == load_call(base.abs, files)
       IN  call' = [op |-> "load", pc |-> "done", raised |-> r.raised,
                    patterns |-> r.patterns, visited |-> r.visited]
    /\ UNCHANGED <<scandir, files, mtime, fault, base>>
    /\ UNCHANGED lineVars

PNext == Load

SpecLoad == PInit /\ [][PNext]_vars

(***************************************************************************)
(* Properties of the line operations.                                      *)
(***************************************************************************)

\* The scenario "t = lines(path, a, b); delete_lines(path, a, b);
\* insert_at(path, n, t, after=...)" has run, with 1 <= a <= b <= lineCount.
Reinserted == Len(hist) = 3 /\ hist[3].op = "insert_at"

\* The content is its lines, each ended by one "\n": it is not empty, ends
\* with "\n" and holds no "\r".
NewlineTerminated(bytes) == bytes = join(splitlines(bytes)) \o <<NL>>

\* C1 as stated: deleting lines a..b and inserting the removed text with
\* insert_at(path, a-1, removedText, after=False) restores the content.
C1_Original ==
    (Reinserted /\ ~hist[3].after /\ hist[3].start = hist[1].start - 1)
        => fileData = hist[1].before

\* C1, amended: on a file of "\n"-terminated lines, for 1 <= a <= b <= lineCount
\* where at least one line stays and line b is not empty, deleting lines a..b
\* and inserting the text lines(path, a, b) returned with
\* insert_at(path, a, removedText, after=False) restores the content, byte
\* for byte.
C1_DeleteThenInsertBefore ==
    (/\ Reinserted /\ ~hist[3].after /\ hist[3].start = hist[1].start
     /\ NewlineTerminated(hist[1].before)
     /\ hist[1].end - hist[1].start + 1 < LineCount(hist[1].before)
     /\ splitlines(hist[1].before)[hist[1].end] # <<>>)
        => fileData = hist[1].before

\* C1 witness: a range starting at line 2 or later was deleted and put back
\* before line a, and the file is as it was.
C1_Witness ==
    /\ Reinserted /\ ~hist[3].after /\ hist[3].start = hist[1].start
    /\ hist[1].start >= 2
    /\ NewlineTerminated(hist[1].before)
    /\ splitlines(hist[1].before)[hist[1].end] # <<>>
    /\ hist[2].count = 1
    /\ fileData # hist[2].new
    /\ fileData = hist[1].before

\* C2 as stated: extracting t = lines(path, start, end), removing the range
\* and reinserting t with insert_at(path, start-1, t) (after=True) reproduces
\* the original content.
C2_Original ==
    (Reinserted /\ hist[3].after /\ hist[3].start = hist[1].start - 1)
        => fileData = hist[1].before

\* C6 as stated: a second run of delete_matching with the same arguments
\* returns 0 and leaves the content unchanged.
C6_Original ==
    (/\ Len(hist) >= 2 /\ Last.op = "delete_matching"
     /\ hist[Len(hist) - 1].op = "delete_matching")
        => (Last.count = 0 /\ fileData = Last.before)

\* C7 as stated: delete_lines returns the number of lines it removed, the
\* line count before the call minus the line count after it.
C7_Original ==
    (hist # <<>> /\ Last.op = "delete_lines")
        => Last.count = LineCount(Last.before) - LineCount(fileData)

(***************************************************************************)
(* Properties of grep.                                                     *)
(***************************************************************************)
Abs(x) == IF x < 0 THEN 0 - x ELSE x

\* The lines of the searched file that hold the pattern: lines "a", which
\* pattern "a" matches, and pattern "A" matches only when case is ignored.
GrepMatched ==
    LET ls == splitlines(hist[1].before)
    IN  {i \in 1..Len(ls) :
            ls[i] = <<"a">> /\ (hist[1].pattern = <<"a">> \/ hist[1].ignore_case)}

\* C8: with context = c > 0 on a file of n lines with matched lines M, grep
\* returns exactly the lines k in 1..n within c of some line of M, in strictly
\* increasing order, none twice, each with the text of line k of the file.
C8_ContextWindows ==
    (hist # <<>> /\ hist[1].op = "grep" /\ hist[1].context > 0) =>
        LET h == hist[1].hits
            ls == splitlines(hist[1].before)
            c == hist[1].context
        IN  /\ {h[i][1] : i \in 1..Len(h)} =
                  {k \in 1..Len(ls) : \E m \in GrepMatched : Abs(k - m) <= c}
            /\ \A i \in 1..(Len(h) - 1) : h[i][1] < h[i + 1][1]
            /\ \A i \in 1..Len(h) : h[i][2] = ls[h[i][1]]

\* C8 witness: 10 lines, matches at lines 5 and 7, context 1: the hits are
\* lines 4, 5, 6, 7, 8, with line 6 once.
C8_Witness ==
    /\ hist # <<>> /\ hist[1].op = "grep" /\ hist[1].context = 1
    /\ Len(splitlines(hist[1].before)) = 10
    /\ GrepMatched = {5, 7}
    /\ [i \in 1..Len(hist[1].hits) |-> hist[1].hits[i][1]] = <<4, 5, 6, 7, 8>>

(***************************************************************************)
(* Properties of the write-back.                                           *)
(***************************************************************************)
\* C5 as stated: after a mutation was interrupted during its write-back, the
\* file holds its complete old content or its complete new content.
C5_Original ==
    io.pc = "interrupted" => (fileData = io.old \/ fileData = io.new)

(***************************************************************************)
(* Properties of find, rgrep and rsed.                                     *)
(***************************************************************************)
Done(op) == call.op = op /\ call.pc = "done"

\* What the finished find or rgrep call returns on the same tree with the
\* same other arguments and limit k.
ResultWithLimit(k) ==
    IF call.op = "find"
    THEN find([call.args EXCEPT !.limit = k], base.abs, scandir, IgnoreAt, mtime)
    ELSE rgrep([call.args EXCEPT !.limit = k], base, scandir, IgnoreAt, files, fault)

FirstK(s, k) == SubSeq(s, 1, Min(k, Len(s)))

\* a can be obtained from b by deleting entries
RECURSIVE IsSubseq(_, _)
IsSubseq(a, b) ==
    IF a = <<>> THEN TRUE
    ELSE IF b = <<>> THEN FALSE
    ELSE IF Head(a) = Head(b) THEN IsSubseq(Tail(a), Tail(b))
    ELSE IsSubseq(a, Tail(b))

\* C3 as stated: for find and for rgrep, the result with limit k < n has at
\* most k entries and equals the first k entries of the result with limit n.
C3_Original ==
    (Done("find") \/ Done("rgrep")) =>
        \A k \in 0..(call.args.limit - 1) :
            /\ Len(ResultWithLimit(k)) <= k
            /\ ResultWithLimit(k) = FirstK(call.result, k)

\* C3, amended: for find and for rgrep on the same unchanged tree with the
\* same other arguments and limits 0 <= k < n, the result with limit k has at
\* most k entries; for rgrep it equals the first k entries of the result with
\* limit n; for find it is a subsequence of the result with limit n (the same
\* entries in the same relative order), though not always its first k entries.
C3_LimitTruncates ==
    (Done("find") \/ Done("rgrep")) =>
        \A k \in 0..(call.args.limit - 1) :
            /\ Len(ResultWithLimit(k)) <= k
            /\ call.op = "rgrep" => ResultWithLimit(k) = FirstK(call.result, k)
            /\ call.op = "find" => IsSubseq(ResultWithLimit(k), call.result)

\* C3 witness: a find with limit 2 returned two entries, and with limit 1 it
\* returns one of them that is not the first.
C3_Witness ==
    /\ Done("find") /\ call.args.limit = 2 /\ Len(call.result) = 2
    /\ Len(ResultWithLimit(1)) = 1
    /\ ResultWithLimit(1) # FirstK(call.result, 1)

\* The rsed call in progress or finished.
InRsed == call.op = "rsed" /\ call.pc \in {"loop", "done"}

\* The files rsed selects, and those among them the pattern does not match.
RsedSelects(f) ==
    Selected(f, call.args.hidden, call.ignore_patterns, base, scandir)
    /\ fnmatch(f[Len(f)], call.args.glob_pattern)
ZeroMatches(f) ==
    re_subn(call.args.pattern, call.args.repl, read_text(call.files0[f])).count = 0

\* The files the loop of rsed has been through.
RsedProcessed ==
    LET all == rglob(call.args.glob_pattern, scandir)
    IN  {all[i] : i \in 1..(Len(all) - Len(call.todo))} \cap DOMAIN files

Reported == {call.changed_files[i].file : i \in 1..Len(call.changed_files)}

\* C4: during and after rsed, a selected file in which the pattern has no
\* match has the content and the st_mtime it had before the call and is not
\* in changed_files, and files_changed counts only files that have a match.
C4_ZeroMatchUntouched ==
    InRsed =>
        /\ \A f \in DOMAIN files :
              (RsedSelects(f) /\ ZeroMatches(f)) =>
                  /\ files[f] = call.files0[f]
                  /\ mtime[f] = call.mtime0[f]
                  /\ f \notin Reported
        /\ call.files_changed <=
              Cardinality({f \in RsedProcessed : RsedSelects(f) /\ ~ZeroMatches(f)})

\* C4 witness: rsed has finished, it went through z.txt, which has no match,
\* and it rewrote another file.
C4_Witness ==
    /\ Done("rsed")
    /\ E_z \in RsedProcessed /\ RsedSelects(E_z) /\ ZeroMatches(E_z)
    /\ call.files_changed = 1 /\ Reported = {E_y}
    /\ files[E_y] # call.files0[E_y]

UnderNodeModules(e) == \E i \in 1..Len(e) : e[i] = N_node_modules

\* C9: with the built-in patterns, whatever ignore file is found, find returns
\* neither the directory node_modules nor an entry beneath it (so not x.txt in
\* a listing of files, not node_modules in a listing of directories), rgrep
\* returns no hit in a file beneath it, and rsed leaves such files unwritten
\* and unreported.
C9_NodeModulesExcluded ==
    /\ Done("find") =>
          \A i \in 1..Len(call.result) : ~UnderNodeModules(call.result[i])
    /\ Done("rgrep") =>
          \A i \in 1..Len(call.result) : ~UnderNodeModules(call.result[i][1])
    /\ InRsed =>
          \A f \in DOMAIN files :
              UnderNodeModules(f) =>
                  /\ files[f] = call.files0[f]
                  /\ mtime[f] = call.mtime0[f]
                  /\ f \notin Reported

\* C9 witness: a listing of files with hidden entries included and no depth
\* bound returned a/y.txt, the neighbour of a/node_modules, and z.txt, while
\* a/node_modules/x.txt exists.
C9_Witness ==
    /\ Done("find") /\ call.args.type = "file" /\ call.args.hidden
    /\ ~call.args.maxdepth.given /\ ~call.args.mindepth.given
    /\ E_x \in DOMAIN files /\ E_nm \in DOMAIN scandir
    /\ call.result = <<E_y, E_z>>

\* s without the entries equal to x
RECURSIVE Without(_, _)
Without(s, x) ==
    IF s = <<>> THEN <<>>
    ELSE (IF Head(s) = x THEN <<>> ELSE <<Head(s)>>) \o Without(Tail(s), x)

\* What rsed does on the tree it started from when the failing file is not
\* among the entries and nothing fails.
RsedWithoutFailing ==
    rsed_loop(Without(rglob(call.args.glob_pattern, scandir), fault.file),
              [total |-> 0, files_changed |-> 0, changed_files |-> <<>>,
               files |-> call.files0, mtime |-> call.mtime0],
              call.args, call.ignore_patterns, base, scandir, NoFault)

\* What rgrep returns when the failing file is not among the entries.
RgrepWithoutFailing ==
    RgrepScan(Without(rglob(call.args.glob_pattern, scandir), fault.file), <<>>,
              call.args, load_gitignore_patterns(base.abs, IgnoreAt), base, scandir,
              files, NoFault)

\* C10: when the read or the write of one file raises, rsed and rgrep still
\* finish; the total, files_changed, changed_files and the hits are those of
\* the same call on the tree without that file, and rsed leaves every other
\* file with the content that call gives it.
C10_FailingFileSkipped ==
    /\ (Done("rsed") /\ fault # NoFault) =>
          LET ref == RsedWithoutFailing
          IN  /\ call.total = ref.total
              /\ call.files_changed = ref.files_changed
              /\ call.changed_files = ref.changed_files
              /\ \A f \in DOMAIN files \ {fault.file} : files[f] = ref.files[f]
    /\ (Done("rgrep") /\ fault # NoFault) => call.result = RgrepWithoutFailing

\* C10 witness: rsed has finished; the write of a/y.txt, which has matches,
\* raised after truncating it; z.txt was rewritten and is the only file
\* counted.
C10_Witness ==
    /\ Done("rsed") /\ WriteRaises(E_y, fault)
    /\ RsedSelects(E_y) /\ ~ZeroMatches(E_y)
    /\ files[E_y] = <<>>
    /\ call.files_changed = 1 /\ Reported = {E_z} /\ call.total = 2

(***************************************************************************)
(* C11: a single-target operation that hits NotFound, TypeMismatch,        *)
(* InvalidPattern or a read failure raises the error to its caller, and    *)
(* the target is what it was before the call: the same kind of entry with  *)
(* the same content.                                                       *)
(***************************************************************************)
UsesRegex(c) ==
    \/ c.op = "sed"
    \/ c.op \in {"replace", "delete_matching"} /\ c.regex
    \/ c.op = "grep" /\ ~c.literal

Called == hist # <<>>

C11_ErrorsSurface ==
    Called =>
        LET h == hist[1]
        IN  /\ target = "missing" => h.raised = "FileNotFoundError"
            /\ target = "dir" => h.raised = "IsADirectoryError"
            /\ target = "unreadable" => h.raised = "PermissionError"
            /\ (target = "file" /\ UsesRegex(h.args) /\ h.args.pattern \in Malformed)
                   => h.raised = "re.error"
            /\ h.raised # "none" => fileData = h.before

C11_Witness ==
    /\ Called
    /\ hist[1].op = "delete_matching"
    /\ hist[1].raised = "re.error"
    /\ hist[1].before = S_foo1_foo2
    /\ fileData = S_foo1_foo2

(***************************************************************************)
(* C12: sed replaces every non-overlapping match of the pattern and        *)
(* returns how many it replaced; in repl a group is referred to as \1,     *)
(* and "$1" stands for itself.  On "foo1 foo2", sed(path, "foo(\d+)",      *)
(* "bar\1") returns 2 and leaves "bar1 bar2"; with "bar$1" it returns 2    *)
(* and leaves "bar$1 bar$1".                                               *)
(***************************************************************************)
S_bar1_bar2 == <<"b", "a", "r", "1", " ", "b", "a", "r", "2">>
S_bar_dollar1_twice == R_bar_dollar1 \o <<" ">> \o R_bar_dollar1

SedReturned ==
    /\ Called
    /\ hist[1].op = "sed"
    /\ hist[1].raised = "none"

\* C12 as stated: "$1" in repl is replaced by the text of group 1.
C12_Original ==
    (/\ SedReturned
     /\ hist[1].before = S_foo1_foo2
     /\ hist[1].args.pattern = P_foo_digits
     /\ hist[1].args.repl = R_bar_dollar1)
        => /\ hist[1].ret = 2
           /\ fileData = S_bar1_bar2

C12_SedSubstitutes ==
    SedReturned =>
        LET h == hist[1]
            pattern == h.args.pattern
            repl == h.args.repl
            data == read_text(h.before)
        IN  /\ h.ret = 0 <=> ~ReSearch(pattern, data)
            /\ h.ret = 0 => fileData = data
            \* no match is left when the replacement cannot make one
            /\ (repl = <<"x">> /\ pattern \notin {<<>>, <<"(", ")">>})
                   => ~ReSearch(pattern, fileData)
            \* a pattern of ordinary characters, a replacement without "\"
            /\ (pattern = <<"o">> /\ \A i \in 1..Len(repl) : repl[i] # BACKSLASH)
                   => /\ fileData = str_replace(data, pattern, repl)
                      /\ h.ret = str_count(data, pattern)
            /\ (h.before = S_foo1_foo2 /\ pattern = P_foo_digits)
                   => /\ h.ret = 2
                      /\ repl = R_bar_group1 => fileData = S_bar1_bar2
                      /\ repl = R_bar_dollar1 => fileData = S_bar_dollar1_twice

C12_Witness ==
    /\ SedReturned
    /\ hist[1].before = S_foo1_foo2
    /\ hist[1].args.pattern = P_foo_digits
    /\ hist[1].args.repl = R_bar_group1
    /\ hist[1].ret = 2
    /\ fileData = S_bar1_bar2

(***************************************************************************)
(* C13: after each file processed by rsed, and at its end, total is the    *)
(* sum of the substitution counts of the files rewritten so far,           *)
(* files_changed is their number, and changed_files holds the first        *)
(* min(files_changed, 10) of them in traversal order, each with its count; *)
(* rsed returns total.                                                     *)
(***************************************************************************)
\* The files of the enumeration the loop is done with, in traversal order.
RsedDone ==
    LET all == rglob(call.args.glob_pattern, scandir)
    IN  SubSeq(all, 1, Len(all) - Len(call.todo))

\* The file holds the result of the substitution on what it held at first.
Rewritten(f) ==
    /\ f \in DOMAIN files
    /\ files[f] # call.files0[f]
    /\ files[f] = str_replace(read_text(call.files0[f]), call.args.pattern, call.args.repl)

\* The matches of the pattern in what the file held at first.
CountIn(f) == str_count(read_text(call.files0[f]), call.args.pattern)

RECURSIVE RewrittenOf(_)
RewrittenOf(done) ==
    IF done = <<>> THEN <<>>
    ELSE IF Rewritten(Head(done)) THEN <<Head(done)>> \o RewrittenOf(Tail(done))
    ELSE RewrittenOf(Tail(done))

RECURSIVE SumCounts(_)
SumCounts(fs) == IF fs = <<>> THEN 0 ELSE CountIn(Head(fs)) + SumCounts(Tail(fs))

C13_RsedAccounting ==
    InRsed =>
        LET rw == RewrittenOf(RsedDone)
        IN  /\ call.total = SumCounts(rw)
            /\ call.files_changed = Len(rw)
            /\ call.changed_files =
                   [i \in 1..Min(Len(rw), 10) |-> [file |-> rw[i], count |-> CountIn(rw[i])]]

C13_Witness ==
    /\ call.op = "rsed" /\ call.pc = "done"
    /\ call.files_changed = 11
    /\ Len(call.changed_files) = 10
    /\ call.total = 16
    /\ \E f \in DOMAIN files : files[f] = call.files0[f]
    /\ call.changed_files[1].file = BatchEntry(12)

(***************************************************************************)
(* C14: whatever the depth of the base and whichever ignore files above it *)
(* are absent, unreadable or undecodable, the loader visits at most 20     *)
(* levels, raises nothing, and returns the built-in patterns followed by   *)
(* the patterns of every readable level visited, levels above a failed     *)
(* level included.                                                         *)
(***************************************************************************)
Loaded == call.op = "load" /\ call.pc = "done"

\* The patterns of the readable ignore files of the first n levels from
\* directory dir upwards.
RECURSIVE ReadableFrom(_, _)
ReadableFrom(dir, n) ==
    IF n = 0 THEN <<>>
    ELSE (IF dir \in DOMAIN files /\ files[dir].readable
          THEN <<PathStr(dir) \o (IF Len(dir) = 1 THEN <<>> ELSE <<SLASH>>) \o <<"x">>>>
          ELSE <<>>)
         \o (IF Len(dir) = 1 THEN <<>>
             ELSE ReadableFrom(SubSeq(dir, 1, Len(dir) - 1), n - 1))

C14_Original ==
    Loaded =>
        /\ call.raised = "none"
        /\ call.visited <= 20
        /\ call.patterns = BuiltinPatterns \o ReadableFrom(base.abs, 20)

(***************************************************************************)
(* C15: after delete_lines(path, start, end), for all integers start and   *)
(* end, the lines of the file are a subsequence of its lines before the    *)
(* call (none is duplicated or added), and the count returned is not       *)
(* negative.                                                               *)
(***************************************************************************)
LinesOf(bytes) == splitlines(read_text(bytes))

C15_Original ==
    (hist # <<>> /\ Last.op = "delete_lines")
        => /\ IsSubseq(LinesOf(fileData), LinesOf(Last.before))
           /\ Len(LinesOf(fileData)) <= Len(LinesOf(Last.before))
           /\ Last.count >= 0

(***************************************************************************)
(* C16: a line mutation that removes and inserts nothing (delete_matching  *)
(* without a matching line, delete_lines whose clamped range is empty,     *)
(* insert_at with an empty text) leaves the bytes of the file as they      *)
(* were, whether or not the file ends with a newline.                      *)
(***************************************************************************)
\* The range of the last delete_lines call, clamped to the file, is empty.
ClampedRangeEmpty ==
    LET n == Len(LinesOf(Last.before))
        end0 == IF Last.endNone THEN Last.start ELSE Last.end
    IN  Max(1, Last.start) > Min(n, end0)

RemovesAndInsertsNothing ==
    /\ hist # <<>>
    /\ \/ Last.op = "delete_matching" /\ Last.count = 0
       \/ Last.op = "delete_lines" /\ ClampedRangeEmpty
       \/ Last.op = "insert_at" /\ Last.text = <<>>

C16_Original == RemovesAndInsertsNothing => fileData = Last.before

(***************************************************************************)
(* C17: whether find, rgrep or rsed accepts an entry depends only on the   *)
(* entry's path below the root: on identical trees, with the same ignore   *)
(* patterns, the root-relative results are the same whatever the ancestors *)
(* of the root are called, a dot-prefixed name or the name of an ignore    *)
(* pattern included.                                                       *)
(***************************************************************************)
\* The root /r, whose ancestors no filter rejects.
RefRoot == [given |-> <<RootPart, N_r>>, abs |-> <<RootPart, N_r>>]

\* What rsed does on the tree it started from when the root is /r.
RsedAtRefRoot ==
    rsed_loop(rglob(call.args.glob_pattern, scandir),
              [total |-> 0, files_changed |-> 0, changed_files |-> <<>>,
               files |-> call.files0, mtime |-> call.mtime0],
              call.args, load_gitignore_patterns(RefRoot.abs, <<>>), RefRoot,
              scandir, NoFault)

C17_Original ==
    /\ Done("find") =>
           call.result = find(call.args, RefRoot.abs, scandir, <<>>, mtime)
    /\ Done("rgrep") =>
           call.result = rgrep(call.args, RefRoot, scandir, <<>>, files, NoFault)
    /\ Done("rsed") =>
           /\ files = RsedAtRefRoot.files
           /\ call.total = RsedAtRefRoot.total
           /\ call.changed_files = RsedAtRefRoot.changed_files

(***************************************************************************)
(* C18: exclusion is closed under descent.  When the matcher excludes a    *)
(* directory below the base because of a loaded pattern ("anywhere" or     *)
(* anchored with a leading "/"), it excludes every entry beneath that      *)
(* directory: find returns none of them, rgrep reports no hit in them and  *)
(* rsed leaves them unwritten.                                             *)
(***************************************************************************)
\* _match_gitignore(path, ignore_patterns, base) for the entry e of the
\* tree, as the call in progress evaluates it.
Excluded(e) ==
    match_gitignore((IF call.op = "find" THEN base.abs ELSE base.given) \o e, e,
                    base.abs \o e, load_gitignore_patterns(base.abs, IgnoreAt))

Beneath(e, dir) == Len(e) > Len(dir) /\ SubSeq(e, 1, Len(dir)) = dir

ExcludedDirs == {dir \in DOMAIN scandir \ {<<>>} : Excluded(dir)}

C18_Original ==
    \A dir \in ExcludedDirs :
        /\ (Done("find") \/ Done("rgrep") \/ InRsed) =>
               \A e \in Entries(files) : Beneath(e, dir) => Excluded(e)
        /\ Done("find") =>
               \A i \in 1..Len(call.result) : ~Beneath(call.result[i], dir)
        /\ Done("rgrep") =>
               \A i \in 1..Len(call.result) : ~Beneath(call.result[i][1], dir)
        /\ InRsed =>
               \A f \in DOMAIN files : Beneath(f, dir) => files[f] = call.files0[f]

====
